---- MODULE Spec2Model ----
(***************************************************************************)
(* Verification model of hamkee-fastapi: the retrying HTTP client          *)
(* (app/services/http.py) and the settings loader                          *)
(* (app/services/settings.py).                                             *)
(*                                                                         *)
(* Scheduling model of the HTTP client: the code is asyncio coroutines on  *)
(* one event loop, so a step of the model runs from one suspension point   *)
(* (an await that really waits) to the next.  get_client contains no await *)
(* and is one step; close suspends at "await self._client.aclose()";       *)
(* _send_request suspends at "await request_func(url, **kwargs)".          *)
(***************************************************************************)
EXTENDS Integers, Sequences, FiniteSets, TLC

\* Python None where a pool (an AsyncClient, numbered from 1) is expected
None == 0

\* Python None where the other values are strings (an optional argument)
NoneArg == "None"

-----------------------------------------------------------------------------
(* Bounds of the model *)

MaxRetries == 3        \* largest max_retries a config is built with
NumTasks == 2          \* tasks that call get_client() / close() directly
MaxPools == 2          \* AsyncClient instances ever constructed
MaxInstances == 2      \* settings instances ever constructed
MaxLoggers == 2        \* Logger instances ever constructed
MaxHandlers == 4       \* handler ids loguru ever gives out

-----------------------------------------------------------------------------
(* HTTP client: values *)

Methods == {"get", "post", "put", "delete"}
Urls == {"https://example.com"}

\* str.upper() on the method names the verbs pass
Upper(method) ==
    CASE method = "get" -> "GET"
      [] method = "post" -> "POST"
      [] method = "put" -> "PUT"
      [] method = "delete" -> "DELETE"

\* exceptions the transport can raise: [type, text], text being the argument
\* the exception was constructed with
Raisable ==
    { [type |-> "ConnectTimeout", text |-> "Connection timeout"],
      [type |-> "ReadTimeout", text |-> "Read timeout"],
      [type |-> "ConnectError", text |-> "Connection refused"] }

NoExc == [type |-> "", text |-> ""]

\* str(e)
Str(e) == e.text

\* HTTPClientConfig.__init__: retryable_exceptions when none is passed
DefaultRetryable == {"ConnectTimeout", "RemoteProtocolError", "ReadTimeout"}

\* values HTTPClientConfig is constructed with (any int is accepted for
\* max_retries; a caller may pass its own exception tuple)
RetryChoices == {-1, 0} \cup (1..MaxRetries)
RetryableChoices == {DefaultRetryable, {"ConnectError", "ConnectTimeout"}}

\* HTTPClientConfig.__init__: default_timeout and max_retries when none is
\* passed
DefaultTimeout == 5
DefaultMaxRetries == 5

HTTPClientConfig(retries, retryable) ==
    [default_timeout |-> DefaultTimeout, max_retries |-> retries,
     retryable_exceptions |-> retryable]

\* a timeout argument: seconds, or None
NoneTimeout == -1
Timeouts == {NoneTimeout, 0, 3}

\* a keyword a verb does not pass to _send_request (get and delete pass no
\* data and no json)
NotPassed == "<not passed>"

\* the optional arguments of a verb call: get and delete take headers and
\* timeout; post and put take data, json, headers and timeout
Args(headers, data, json, timeout) ==
    [headers |-> headers, data |-> data, json |-> json, timeout |-> timeout]

VerbArgs(method) ==
    IF method \in {"get", "delete"}
    THEN {Args(h, NotPassed, NotPassed, t) :
             h \in {NoneArg, "headers"}, t \in Timeouts}
    ELSE {Args(h, b[1], b[2], t) :
             h \in {NoneArg, "headers"},
             b \in {<<NoneArg, NoneArg>>, <<"data", NoneArg>>, <<NoneArg, "json">>},
             t \in Timeouts}

\* a verb called with the url only
NoArgs(method) ==
    IF method \in {"get", "delete"}
    THEN Args(NoneArg, NotPassed, NotPassed, NoneTimeout)
    ELSE Args(NoneArg, NoneArg, NoneArg, NoneTimeout)

NoCall == [via |-> "", method |-> "", url |-> "",
           args |-> Args(NoneArg, NotPassed, NotPassed, NoneTimeout)]

\* pools (AsyncClient instances): those get_client constructs are numbered
\* 1, 2, ... in the order of construction; InjectedPool is the one passed to
\* HTTPClient(client=...)
Pools == 1..MaxPools
InjectedPool == MaxPools + 1
AllPools == Pools \cup {InjectedPool}
Tasks == 1..NumTasks

\* a response is identified by the pool it came from and the number, within
\* its request, of the transport call that returned it
NoResponse == [pool |-> None, call |-> 0]
NoMessage == [method |-> "", url |-> "", attempts |-> 0, error |-> ""]
NoResult == [kind |-> "none", ok |-> NoResponse, err |-> NoMessage, exc |-> NoExc]

\* result.Ok(response), result.Err(message), and an exception leaving the call
Ok(response) == [kind |-> "Ok", ok |-> response, err |-> NoMessage, exc |-> NoExc]
Err(message) == [kind |-> "Err", ok |-> NoResponse, err |-> message, exc |-> NoExc]
Raise(e) == [kind |-> "Raise", ok |-> NoResponse, err |-> NoMessage, exc |-> e]

-----------------------------------------------------------------------------
VARIABLES
    config,      \* HTTPClient.config
    _client,     \* HTTPClient._client: a pool, or None
    aclose,      \* aclose[p]: number of aclose() invocations on pool p
    npools,      \* number of pools get_client has constructed
    req,         \* the request in flight or last finished (one caller)
    closing,     \* closing[t]: the pool whose aclose() task t's close() is
                 \* suspended in, None when t is not inside close()
    got,         \* what the last direct get_client() call returned
    called,      \* the call the caller made: on the client ("client") or
                 \* on the module ("module"), the verb and its arguments
    received,    \* the verb call the HTTPClient received
    kwargs,      \* _send_request's **kwargs of the request
    sent         \* the pool, url and kwargs of each transport call of the
                 \* request

http_vars == <<config, _client, aclose, npools, req, closing, got,
               called, received, kwargs, sent>>

VARIABLES
    environ,     \* os.environ: the variables the settings classes read
    dotenv,      \* dotenv[f]: the ENVIRONMENT entry of env file f
    instances,   \* the settings instances constructed so far, in order
    cache,       \* lru_cache of SettingsFactory.create: {[key, id]}
    ret,         \* the instance the last settings call returned (0: none)
    tests        \* the get_test_settings calls made: {[id, override_values]},
                 \* id the instance the call returned

settings_vars == <<environ, dotenv, instances, cache, ret, tests>>

VARIABLES
    handlers,        \* loguru: the handlers registered on the one logger of
                     \* the process, {[id, sink, level, format]}
    handlers_count,  \* loguru: the id the next add() gives
    loggers,         \* the Logger instances constructed so far, in order:
                     \* [config, _handler_id]
    aux,             \* the handles add_handler has returned
    op               \* the last call on a Logger and how it ended

logger_vars == <<handlers, handlers_count, loggers, aux, op>>

vars == <<http_vars, settings_vars, logger_vars>>

\* req: pc is "idle" (no request yet), "awaiting" (suspended in the transport
\* call) or "done"; method, url, client, attempt, last_error are the locals of
\* _send_request; calls, failed, returned count the transport calls made, those
\* that raised a retryable exception and those that returned a response;
\* raised is the exception the latest transport call raised; result is what
\* the call gave its caller
IdleReq ==
    [pc |-> "idle", method |-> "", url |-> "", client |-> None,
     attempt |-> 0, calls |-> 0, failed |-> 0, returned |-> 0,
     raised |-> NoExc, last_error |-> "", result |-> NoResult]

\* HTTPClient.__init__ with a config drawn from the given values: the client
\* is injected or absent
InitClient(retries, retryables) ==
    /\ \E r \in retries, x \in retryables :
           config = HTTPClientConfig(r, x)
    /\ _client \in {None, InjectedPool}
    /\ npools = 0
    /\ aclose = [p \in AllPools |-> 0]
    /\ req = IdleReq
    /\ closing = [t \in Tasks |-> None]
    /\ got = None
    /\ called = NoCall
    /\ received = NoCall
    /\ kwargs = NoCall.args
    /\ sent = <<>>

-----------------------------------------------------------------------------
(* HTTPClient.get_client *)

get_client_always(ref, n) == [client |-> n + 1, npools |-> n + 1]

get_client_twice(ref, n) ==
    IF ref = None THEN [client |-> n + 2, npools |-> n + 2]
    ELSE [client |-> ref, npools |-> n]

\* the reference after get_client (which is also what it returns) and the
\* number of pools constructed, from the reference it finds
get_client(ref, n) ==
    IF ref = None THEN [client |-> n + 1, npools |-> n + 1]
    ELSE [client |-> ref, npools |-> n]

\* the model constructs at most MaxPools pools
CanGetClient == _client = None => npools < MaxPools

-----------------------------------------------------------------------------
(* HTTPClient._send_request *)

IsAnyException(e) == e \in Raisable

request_func_current == _client

\* request_func = getattr(client, method): the method of the pool the call
\* resolved before the loop
request_func == req.client

InRangeAtLeastOnce(attempt) ==
    attempt >= 0 /\ (attempt = 0 \/ attempt < config.max_retries)

\* except self.config.retryable_exceptions
IsRetryable(e) == e.type \in config.retryable_exceptions

IsFirstAttempt(attempt) == attempt = 0

\* if attempt == self.config.max_retries - 1
IsLastAttempt(attempt) == attempt = config.max_retries - 1

InRangeInclusive(attempt) == attempt >= 0 /\ attempt <= config.max_retries

\* for attempt in range(self.config.max_retries): is `attempt` in the range
InRange(attempt) == attempt >= 0 /\ attempt < config.max_retries

\* the error message built after the loop
ErrorMessage(method, url, last_error) ==
    [method |-> Upper(method), url |-> url,
     attempts |-> config.max_retries, error |-> last_error]

\* timeout or self.config.default_timeout
TimeoutOr(timeout) ==
    IF timeout # NoneTimeout /\ timeout # 0 THEN timeout
    ELSE config.default_timeout

\* the keywords a verb passes to _send_request: its arguments, the timeout
\* replaced by "timeout or self.config.default_timeout"
VerbKwargs(method, a) == [a EXCEPT !.timeout = TimeoutOr(a.timeout)]

\* _send_request(method, url, **kw): get_client, then the loop up to its
\* first await (with an empty range the loop body never runs and the call
\* returns Err at once)
_send_request(method, url, kw) ==
    /\ req.pc # "awaiting"
    /\ CanGetClient
    /\ LET g == get_client(_client, npools) IN
       /\ _client' = g.client
       /\ npools' = g.npools
       /\ req' = IF InRange(0)
                 THEN [IdleReq EXCEPT !.pc = "awaiting", !.method = method,
                                      !.url = url, !.client = g.client,
                                      !.attempt = 0, !.calls = 1]
                 ELSE [IdleReq EXCEPT !.pc = "done", !.method = method,
                                      !.url = url, !.client = g.client,
                                      !.result = Err(ErrorMessage(method, url, ""))]
    /\ kwargs' = kw
    /\ sent' = IF InRange(0)
               THEN <<[pool |-> get_client(_client, npools).client,
                       url |-> url, kwargs |-> kw]>>
               ELSE <<>>
    /\ UNCHANGED <<config, aclose, closing, got>>

\* a verb of the client is called with arguments a
Verb(method, url, a) ==
    /\ _send_request(method, url, VerbKwargs(method, a))
    /\ called' = [via |-> "client", method |-> method, url |-> url, args |-> a]
    /\ received' = [via |-> "client", method |-> method, url |-> url,
                    args |-> a]
    /\ UNCHANGED <<settings_vars, logger_vars>>

\* a verb of the client is called with the url only
SendRequest(method, url) ==
    /\ _send_request(method, url, VerbKwargs(method, NoArgs(method)))
    /\ called' = [via |-> "client", method |-> method, url |-> url,
                  args |-> NoArgs(method)]
    /\ received' = [via |-> "client", method |-> method, url |-> url,
                    args |-> NoArgs(method)]
    /\ UNCHANGED <<settings_vars, logger_vars>>

\* the loop goes on after a response instead of returning it
TransportReturnsNoReturn ==
    /\ req.pc = "awaiting"
    /\ req' = IF InRange(req.attempt + 1)
              THEN [req EXCEPT !.attempt = req.attempt + 1,
                               !.calls = req.calls + 1,
                               !.returned = req.returned + 1]
              ELSE [req EXCEPT !.pc = "done",
                               !.returned = req.returned + 1,
                               !.result = Err(ErrorMessage(req.method, req.url,
                                                           req.last_error))]
    /\ sent' = IF InRange(req.attempt + 1)
               THEN Append(sent, [pool |-> request_func, url |-> req.url,
                                  kwargs |-> kwargs])
               ELSE sent
    /\ UNCHANGED <<config, _client, aclose, npools, closing, got>>
    /\ UNCHANGED <<called, received, kwargs>>
    /\ UNCHANGED <<settings_vars, logger_vars>>

\* the awaited transport call returns a response: return Ok(response)
TransportReturns ==
    /\ req.pc = "awaiting"
    /\ req' = [req EXCEPT !.pc = "done",
                          !.returned = req.returned + 1,
                          !.raised = NoExc,
                          !.result = Ok([pool |-> req.client, call |-> req.calls])]
    /\ UNCHANGED <<config, _client, aclose, npools, closing, got>>
    /\ UNCHANGED <<called, received, kwargs, sent>>
    /\ UNCHANGED <<settings_vars, logger_vars>>

\* the awaited transport call raises e: a retryable e is logged, recorded as
\* last_error on the last attempt, and the loop goes on to the next attempt's
\* transport call or, the range exhausted, to return Err(error_message); any
\* other e leaves _send_request
TransportRaises(e) ==
    /\ req.pc = "awaiting"
    /\ req' =
         IF IsRetryable(e)
         THEN LET last == IF IsLastAttempt(req.attempt) THEN Str(e)
                          ELSE req.last_error
              IN IF InRange(req.attempt + 1)
                 THEN [req EXCEPT !.attempt = req.attempt + 1,
                                  !.calls = req.calls + 1,
                                  !.failed = req.failed + 1,
                                  !.raised = e,
                                  !.last_error = last]
                 ELSE [req EXCEPT !.pc = "done",
                                  !.failed = req.failed + 1,
                                  !.raised = e,
                                  !.last_error = last,
                                  !.result = Err(ErrorMessage(req.method, req.url, last))]
         ELSE [req EXCEPT !.pc = "done", !.raised = e, !.result = Raise(e)]
    /\ sent' = IF IsRetryable(e) /\ InRange(req.attempt + 1)
               THEN Append(sent, [pool |-> request_func, url |-> req.url,
                                  kwargs |-> kwargs])
               ELSE sent
    /\ UNCHANGED <<config, _client, aclose, npools, closing, got>>
    /\ UNCHANGED <<called, received, kwargs>>
    /\ UNCHANGED <<settings_vars, logger_vars>>

-----------------------------------------------------------------------------
(* get_client() and close() called directly (init_pool, close_pool, users) *)

GetClient(t) ==
    /\ closing[t] = None
    /\ CanGetClient
    /\ LET g == get_client(_client, npools) IN
       /\ _client' = g.client
       /\ npools' = g.npools
       /\ got' = g.client
    /\ UNCHANGED <<config, aclose, req, closing>>
    /\ UNCHANGED <<called, received, kwargs, sent>>
    /\ UNCHANGED <<settings_vars, logger_vars>>

\* close() with a client present, up to "await self._client.aclose()"
\* (with no client close() returns at once and changes nothing)
CloseBegin(t) ==
    /\ closing[t] = None
    /\ _client # None
    /\ aclose' = [aclose EXCEPT ![_client] = @ + 1]
    /\ closing' = [closing EXCEPT ![t] = _client]
    /\ UNCHANGED <<config, _client, npools, req, got>>
    /\ UNCHANGED <<called, received, kwargs, sent>>
    /\ UNCHANGED <<settings_vars, logger_vars>>

\* close() returns without clearing the reference
CloseEndKeepsClient(t) ==
    /\ closing[t] # None
    /\ closing' = [closing EXCEPT ![t] = None]
    /\ UNCHANGED <<config, _client, aclose, npools, req, got>>
    /\ UNCHANGED <<called, received, kwargs, sent>>
    /\ UNCHANGED <<settings_vars, logger_vars>>

\* close() after the await: self._client = None, and close() returns
CloseEnd(t) ==
    /\ closing[t] # None
    /\ _client' = None
    /\ closing' = [closing EXCEPT ![t] = None]
    /\ UNCHANGED <<config, aclose, npools, req, got>>
    /\ UNCHANGED <<called, received, kwargs, sent>>
    /\ UNCHANGED <<settings_vars, logger_vars>>

-----------------------------------------------------------------------------
(* The module-level functions of app/services/http.py *)

\* the client of the model is default_client = HTTPClient(config=default_config)
IsDefaultClient == config = HTTPClientConfig(DefaultMaxRetries, DefaultRetryable)

ModuleForwardSwapped(method, url, a) ==
    [method |-> method, url |-> url,
     args |-> Args(a.headers, a.json, a.data, a.timeout)]

\* the call each module-level function makes on default_client
ModuleForward(method, url, a) ==
    CASE method = "get" ->
           [method |-> "get", url |-> url,
            args |-> Args(a.headers, NotPassed, NotPassed, a.timeout)]
      [] method = "post" ->
           [method |-> "post", url |-> url,
            args |-> Args(a.headers, a.data, a.json, a.timeout)]
      [] method = "put" ->
           [method |-> "put", url |-> url,
            args |-> Args(a.headers, a.data, a.json, a.timeout)]
      [] method = "delete" ->
           [method |-> "delete", url |-> url,
            args |-> Args(a.headers, NotPassed, NotPassed, a.timeout)]

\* get / post / put / delete of the module, called with arguments a
ModuleVerb(method, url, a) ==
    /\ IsDefaultClient
    /\ LET f == ModuleForward(method, url, a) IN
       /\ _send_request(f.method, f.url, VerbKwargs(f.method, f.args))
       /\ received' = [via |-> "default_client", method |-> f.method,
                       url |-> f.url, args |-> f.args]
    /\ called' = [via |-> "module", method |-> method, url |-> url, args |-> a]
    /\ UNCHANGED <<settings_vars, logger_vars>>

\* init_pool(): await default_client.get_client()
init_pool(t) ==
    /\ IsDefaultClient
    /\ GetClient(t)

\* close_pool(): await default_client.close(), up to and after its await
close_pool_begin(t) ==
    /\ IsDefaultClient
    /\ CloseBegin(t)

close_pool_end(t) ==
    /\ IsDefaultClient
    /\ CloseEnd(t)

-----------------------------------------------------------------------------
(* Settings loader (app/services/settings.py) *)

\* an environment variable or env file entry that is not set
Unset == "<unset>"

\* class Environment
Environment == {"development", "testing", "staging", "production"}

\* the env files of the model: Config.env_file and one other
DefaultEnvFile == ".env"
EnvFiles == {DefaultEnvFile, "alt.env"}

\* the arguments get_settings / SettingsFactory.create are called with
EnvFileArgs == {NoneArg, "alt.env"}
EnvironmentArgs == {NoneArg, ""} \cup Environment

\* what os.environ holds: ENVIRONMENT, DEBUG, CORS_ALLOW_ALL_ORIGINS
EnvironmentValues == {Unset} \cup Environment
BoolValues == {Unset, "true", "false"}

\* the ENVIRONMENT entry of an env file (the files of the model hold no other)
FileValues == {Unset, "testing", "production"}

\* pydantic's parsing of a bool field from a string of the environment
ParseBool(v) == v = "true"

\* Python truthiness of an optional string argument ("if env_file:")
Truthy(arg) == arg # NoneArg /\ arg # ""

ClassDefaultsInherited(class) ==
    [DEBUG |-> FALSE, CORS_ALLOW_ALL_ORIGINS |-> FALSE]

\* the field defaults the settings classes declare: BaseAppSettings has DEBUG
\* and CORS_ALLOW_ALL_ORIGINS False; DevelopmentSettings overrides both with
\* True, TestingSettings DEBUG with True, ProductionSettings both with False;
\* StagingSettings overrides nothing
ClassDefaults(class) ==
    CASE class = "DevelopmentSettings" ->
             [DEBUG |-> TRUE, CORS_ALLOW_ALL_ORIGINS |-> TRUE]
      [] class = "TestingSettings" ->
             [DEBUG |-> TRUE, CORS_ALLOW_ALL_ORIGINS |-> FALSE]
      [] class = "ProductionSettings" ->
             [DEBUG |-> FALSE, CORS_ALLOW_ALL_ORIGINS |-> FALSE]
      [] OTHER ->
             [DEBUG |-> FALSE, CORS_ALLOW_ALL_ORIGINS |-> FALSE]

\* the default of the ENVIRONMENT field
DefaultEnvironment == "development"

FieldValueFileFirst(init, envvar, filevar, default) ==
    IF init # Unset THEN init
    ELSE IF filevar # Unset THEN filevar
    ELSE IF envvar # Unset THEN envvar
    ELSE default

\* BaseSettings: the value of a field is the keyword passed to the
\* constructor, else the environment variable, else the entry of the env
\* file, else the field's default
FieldValue(init, envvar, filevar, default) ==
    IF init # Unset THEN init
    ELSE IF envvar # Unset THEN envvar
    ELSE IF filevar # Unset THEN filevar
    ELSE default

\* the env file a construction reads: the _env_file keyword when
\* SettingsFactory.create passes one, else Config.env_file
EnvFileRead(env_file) == IF Truthy(env_file) THEN env_file ELSE DefaultEnvFile

\* base_kwargs["ENVIRONMENT"], set only "if environment:"
EnvironmentKwarg(environment) ==
    IF Truthy(environment) THEN environment ELSE Unset

\* settings_class(**base_kwargs) in the process environment env with the env
\* files files; env_file and environment record the call's arguments
Construct(class, env_file, environment, env, files) ==
    [cls |-> class,
     ENVIRONMENT |-> FieldValue(EnvironmentKwarg(environment), env.ENVIRONMENT,
                                files[EnvFileRead(env_file)], DefaultEnvironment),
     DEBUG |-> IF env.DEBUG # Unset THEN ParseBool(env.DEBUG)
               ELSE ClassDefaults(class).DEBUG,
     CORS_ALLOW_ALL_ORIGINS |->
               IF env.CORS_ALLOW_ALL_ORIGINS # Unset
               THEN ParseBool(env.CORS_ALLOW_ALL_ORIGINS)
               ELSE ClassDefaults(class).CORS_ALLOW_ALL_ORIGINS,
     env_file |-> env_file,
     environment |-> environment]

env_settings_map_pasted(environment_enum) ==
    CASE environment_enum = "testing" -> "TestingSettings"
      [] environment_enum = "staging" -> "StagingSettings"
      [] OTHER -> "DevelopmentSettings"

\* SettingsFactory._env_settings_map.get(environment_enum, DevelopmentSettings)
env_settings_map(environment_enum) ==
    CASE environment_enum = "development" -> "DevelopmentSettings"
      [] environment_enum = "testing" -> "TestingSettings"
      [] environment_enum = "staging" -> "StagingSettings"
      [] environment_enum = "production" -> "ProductionSettings"
      [] OTHER -> "DevelopmentSettings"

\* the body of SettingsFactory.create
create(env_file, environment, env, files) ==
    LET base_settings == Construct("BaseAppSettings", env_file, environment,
                                   env, files)
        settings_class == env_settings_map(base_settings.ENVIRONMENT)
    IN Construct(settings_class, env_file, environment, env, files)

\* functools.lru_cache keys a call by its positional arguments (the class
\* first) followed by its keyword arguments in the order given.  get_settings
\* passes both arguments by keyword ("kw"); a caller of SettingsFactory.create
\* may pass them by position ("pos")
CallForms == {"kw", "pos"}

MakeKey(form, env_file, environment) ==
    IF form = "kw"
    THEN [args |-> <<"SettingsFactory">>,
          kwds |-> <<"env_file", env_file, "environment", environment>>]
    ELSE [args |-> <<"SettingsFactory", env_file, environment>>,
          kwds |-> <<>>]

Cached(key) == \E c \in cache : c.key = key
CachedId(key) == (CHOOSE c \in cache : c.key = key).id

\* the lru_cache wrapper of SettingsFactory.create: a cached key returns the
\* cached instance, else the body runs and its result is cached.  (The cache
\* holds 128 entries; the model constructs fewer instances than that.)
lru_cache(form, env_file, environment) ==
    LET key == MakeKey(form, env_file, environment) IN
    IF Cached(key)
    THEN /\ ret' = CachedId(key)
         /\ UNCHANGED <<instances, cache>>
    ELSE /\ Len(instances) < MaxInstances
         /\ instances' = Append(instances,
                                create(env_file, environment, environ, dotenv))
         /\ cache' = cache \cup {[key |-> key, id |-> Len(instances) + 1]}
         /\ ret' = Len(instances) + 1

\* get_settings(env_file, environment):
\* return SettingsFactory.create(env_file=env_file, environment=environment)
get_settings(env_file, environment) ==
    /\ lru_cache("kw", env_file, environment)
    /\ UNCHANGED <<environ, dotenv, tests>>
    /\ UNCHANGED <<http_vars, logger_vars>>

\* a caller's SettingsFactory.create(env_file, environment), by position
SettingsFactory_create(env_file, environment) ==
    /\ lru_cache("pos", env_file, environment)
    /\ UNCHANGED <<environ, dotenv, tests>>
    /\ UNCHANGED <<http_vars, logger_vars>>

\* the override_values of a get_test_settings call: the field names passed
\* (keys) and the value passed for each (vals; only those of keys count)
NoOverrides ==
    [keys |-> {},
     vals |-> [DEBUG |-> TRUE, CORS_ALLOW_ALL_ORIGINS |-> FALSE,
               ENVIRONMENT |-> "testing"]]

OverrideChoices ==
    { NoOverrides,
      [NoOverrides EXCEPT !.keys = {"DEBUG"}, !.vals.DEBUG = FALSE],
      [NoOverrides EXCEPT !.keys = {"CORS_ALLOW_ALL_ORIGINS"},
                          !.vals.CORS_ALLOW_ALL_ORIGINS = TRUE],
      [NoOverrides EXCEPT !.keys = {"DEBUG", "ENVIRONMENT"},
                          !.vals.DEBUG = FALSE,
                          !.vals.ENVIRONMENT = "staging"] }

\* for key, value in override_values.items(): setattr(test_settings, key, value)
\* (assignment to a field stores the value as it is)
SetAttrs(settings, override_values) ==
    [f \in DOMAIN settings |->
        IF f \in override_values.keys THEN override_values.vals[f]
        ELSE settings[f]]

get_test_settings_cached(override_values) ==
    /\ lru_cache("kw", NoneArg, "testing")
    /\ tests' = tests \cup {[id |-> ret', override_values |-> override_values]}
    /\ UNCHANGED <<environ, dotenv>>
    /\ UNCHANGED <<http_vars, logger_vars>>

\* SettingsFactory.get_test_settings(**override_values):
\* TestingSettings(ENVIRONMENT=Environment.TESTING), then the overrides
get_test_settings(override_values) ==
    /\ Len(instances) < MaxInstances
    /\ LET test_settings == Construct("TestingSettings", NoneArg, "testing",
                                      environ, dotenv)
       IN instances' = Append(instances, SetAttrs(test_settings, override_values))
    /\ ret' = Len(instances) + 1
    /\ tests' = tests \cup {[id |-> Len(instances) + 1,
                             override_values |-> override_values]}
    /\ UNCHANGED <<environ, dotenv, cache>>
    /\ UNCHANGED <<http_vars, logger_vars>>

\* the process environment changes: os.environ[name] = value (or del)
SetEnviron(name, value) ==
    /\ environ[name] # value
    /\ environ' = [environ EXCEPT ![name] = value]
    /\ UNCHANGED <<dotenv, instances, cache, ret, tests>>
    /\ UNCHANGED <<http_vars, logger_vars>>

\* an env file is rewritten
WriteEnvFile(file, value) ==
    /\ dotenv[file] # value
    /\ dotenv' = [dotenv EXCEPT ![file] = value]
    /\ UNCHANGED <<environ, instances, cache, ret, tests>>
    /\ UNCHANGED <<http_vars, logger_vars>>

\* a process start: nothing constructed, nothing cached
InitLoader ==
    /\ instances = <<>>
    /\ cache = {}
    /\ ret = 0
    /\ tests = {}

\* no variable set, no env file entry
InitCleanEnvironment ==
    /\ environ = [ENVIRONMENT |-> Unset, DEBUG |-> Unset,
                  CORS_ALLOW_ALL_ORIGINS |-> Unset]
    /\ dotenv = [f \in EnvFiles |-> Unset]

\* any process environment and env files
InitAnyEnvironment ==
    /\ environ \in [ENVIRONMENT : EnvironmentValues, DEBUG : BoolValues,
                    CORS_ALLOW_ALL_ORIGINS : BoolValues]
    /\ dotenv \in [EnvFiles -> FileValues]

\* default_config and default_client of app/services/http.py
InitDefaultClient ==
    /\ config = HTTPClientConfig(DefaultMaxRetries, DefaultRetryable)
    /\ _client = None
    /\ npools = 0
    /\ aclose = [p \in AllPools |-> 0]
    /\ req = IdleReq
    /\ closing = [t \in Tasks |-> None]
    /\ got = None
    /\ called = NoCall
    /\ received = NoCall
    /\ kwargs = NoCall.args
    /\ sent = <<>>

-----------------------------------------------------------------------------
(* Logger (app/services/logger.py) over loguru's logger *)

\* sinks: the standard streams, or a file path (a str)
StreamSinks == {"sys.stderr", "sys.stdout"}
FileSink == "logs/app.log"
IsPath(sink) == sink \notin StreamSinks

\* the levels callers pass
Levels == {"DEBUG", "INFO"}

\* the logger name passed to the factory functions (main.py)
Names == {"main"}

\* LoggerConfig.__init__: every attribute as passed; rotation, retention and
\* compression default to None
LoggerConfig(level, format, sink, rotation, retention, compression) ==
    [level |-> level, format |-> format, sink |-> sink,
     rotation |-> rotation, retention |-> retention,
     compression |-> compression]

\* LoggerConfig(): the defaults
DefaultLoggerConfig ==
    LoggerConfig("INFO", "{time} | {level} | {message}", "sys.stderr",
                 NoneArg, NoneArg, NoneArg)

\* the factories' default format after format.replace("{name}", name)
FactoryFormat(name) ==
    "{time:YYYY-MM-DD HH:mm:ss} | {level} | " \o name
        \o ":{function}:{line} | {message}"

\* LoggerFactory.create(name, level, sink)
create_logger_config(name, level, sink) ==
    LoggerConfig(level, FactoryFormat(name), sink, NoneArg, NoneArg, NoneArg)

\* LoggerFactory.create_file_logger(name, level), the other defaults
create_file_logger_config(name, level) ==
    LoggerConfig(level, FactoryFormat(name), FileSink, "10 MB", "1 week", "zip")

HandlerIds(hs) == {h.id : h \in hs}

\* loguru logger.add(sink, level=, format=, **kwargs): the id is taken from
\* the counter first; a file path takes the extra keywords (rotation, ...),
\* for any other sink an extra keyword, whatever its value, is a TypeError
add(hs, count, sink, level, format, extra) ==
    IF ~IsPath(sink) /\ extra # {}
    THEN [handlers |-> hs, handlers_count |-> count + 1, id |-> count,
          raised |-> "TypeError"]
    ELSE [handlers |-> hs \cup {[id |-> count, sink |-> sink,
                                 level |-> level, format |-> format]},
          handlers_count |-> count + 1, id |-> count, raised |-> ""]

remove_all(hs, handler_id) == [handlers |-> {}, raised |-> ""]

\* loguru logger.remove(handler_id): a ValueError if no such handler
remove(hs, handler_id) ==
    IF handler_id \in HandlerIds(hs)
    THEN [handlers |-> {h \in hs : h.id # handler_id}, raised |-> ""]
    ELSE [handlers |-> hs, raised |-> "ValueError"]

\* the keywords Logger.__init__ passes to add: only for a file path, and only
\* those that are set
InitKwargs(c) ==
    IF IsPath(c.sink)
    THEN {k \in {"rotation", "retention", "compression"} : c[k] # NoneArg}
    ELSE {}

\* the keywords set_level passes to add: all three, set or not
SetLevelKwargs == {"rotation", "retention", "compression"}

NoOp == [name |-> "", logger |-> 0, arg |-> "", ret |-> -1, raised |-> ""]

CanAdd == handlers_count < MaxHandlers

\* Logger(config): self._logger.remove() removes every handler of the
\* process, then the handler of this Logger is added
Logger(c) ==
    /\ Len(loggers) < MaxLoggers
    /\ CanAdd
    /\ LET a == add({}, handlers_count, c.sink, c.level, c.format, InitKwargs(c))
       IN /\ handlers' = a.handlers
          /\ handlers_count' = a.handlers_count
          /\ loggers' = Append(loggers, [config |-> c, _handler_id |-> a.id])
          /\ op' = [NoOp EXCEPT !.name = "Logger", !.logger = Len(loggers) + 1,
                                !.ret = a.id, !.raised = a.raised]
    /\ UNCHANGED aux
    /\ UNCHANGED <<http_vars, settings_vars>>

\* Logger.set_level(level) on Logger l
set_level(l, level) ==
    /\ CanAdd
    /\ LET self == loggers[l]
           r == remove(handlers, self._handler_id)
           a == add(r.handlers, handlers_count, self.config.sink, level,
                    self.config.format, SetLevelKwargs)
       IN IF r.raised # ""
          THEN /\ op' = [NoOp EXCEPT !.name = "set_level", !.logger = l,
                                     !.arg = level, !.raised = r.raised]
               /\ UNCHANGED <<handlers, handlers_count, loggers>>
          ELSE /\ handlers' = a.handlers
               /\ handlers_count' = a.handlers_count
               /\ loggers' =
                    [loggers EXCEPT ![l].config.level = level,
                                    ![l]._handler_id =
                                        IF a.raised = "" THEN a.id ELSE @]
               /\ op' = [NoOp EXCEPT !.name = "set_level", !.logger = l,
                                     !.arg = level, !.raised = a.raised]
    /\ UNCHANGED aux
    /\ UNCHANGED <<http_vars, settings_vars>>

\* Logger.add_handler(sink, level) on Logger l: format is the config's
add_handler(l, sink, level) ==
    /\ CanAdd
    /\ LET a == add(handlers, handlers_count, sink, level,
                    loggers[l].config.format, {})
       IN /\ handlers' = a.handlers
          /\ handlers_count' = a.handlers_count
          /\ aux' = aux \cup {a.id}
          /\ op' = [NoOp EXCEPT !.name = "add_handler", !.logger = l,
                                !.arg = sink, !.ret = a.id, !.raised = a.raised]
    /\ UNCHANGED loggers
    /\ UNCHANGED <<http_vars, settings_vars>>

\* Logger.remove_handler(handler_id) on Logger l
remove_handler(l, handler_id) ==
    /\ LET r == remove(handlers, handler_id)
       IN /\ handlers' = r.handlers
          /\ op' = [NoOp EXCEPT !.name = "remove_handler", !.logger = l,
                                !.ret = handler_id, !.raised = r.raised]
    /\ UNCHANGED <<handlers_count, loggers, aux>>
    /\ UNCHANGED <<http_vars, settings_vars>>

\* loguru as imported: its default handler, id 0, on sys.stderr
InitLoguru ==
    /\ handlers = {[id |-> 0, sink |-> "sys.stderr", level |-> "DEBUG",
                    format |-> "<loguru default>"]}
    /\ handlers_count = 1
    /\ loggers = <<>>
    /\ aux = {}
    /\ op = NoOp

-----------------------------------------------------------------------------
(* One caller issuing requests one after another, under every config *)

Init ==
    /\ InitClient(RetryChoices, RetryableChoices)
    /\ InitCleanEnvironment
    /\ InitLoader
    /\ InitLoguru

Next ==
    \/ \E m \in Methods, u \in Urls : SendRequest(m, u)
    \/ TransportReturns
    \/ \E e \in Raisable : TransportRaises(e)

Spec == Init /\ [][Next]_vars

\* every transport call returns or raises: an awaited call is resumed
Transport == TransportReturns \/ \E e \in Raisable : TransportRaises(e)

SpecFair == Init /\ [][Next]_vars /\ WF_vars(Transport)

(* The pool under concurrency: a caller issuing GET requests while NumTasks *)
(* other tasks call get_client() and close()                                *)

InitPool ==
    /\ InitClient({MaxRetries}, {DefaultRetryable})
    /\ InitCleanEnvironment
    /\ InitLoader
    /\ InitLoguru

NextPool ==
    \/ \E u \in Urls : SendRequest("get", u)
    \/ TransportReturns
    \/ \E e \in Raisable : TransportRaises(e)
    \/ \E t \in Tasks : GetClient(t)
    \/ \E t \in Tasks : CloseBegin(t)
    \/ \E t \in Tasks : CloseEnd(t)

SpecPool == InitPool /\ [][NextPool]_vars

(* Settings constructed in a process environment that stays as it is: every *)
(* environment, get_settings called with every pair of arguments           *)

InitSettings ==
    /\ InitDefaultClient
    /\ InitAnyEnvironment
    /\ InitLoader
    /\ InitLoguru

NextSettings ==
    \E ef \in EnvFileArgs, en \in EnvironmentArgs : get_settings(ef, en)

SpecSettings == InitSettings /\ [][NextSettings]_vars

(* The settings cache while the environment changes between calls *)

InitCache ==
    /\ InitDefaultClient
    /\ InitCleanEnvironment
    /\ InitLoader
    /\ InitLoguru

NextCache ==
    \/ \E ef \in EnvFileArgs, en \in {NoneArg, "production"} : get_settings(ef, en)
    \/ \E ef \in EnvFileArgs, en \in {NoneArg, "production"} :
          SettingsFactory_create(ef, en)
    \/ \E v \in {Unset, "testing", "production"} : SetEnviron("ENVIRONMENT", v)
    \/ \E v \in {Unset, "true"} : SetEnviron("DEBUG", v)
    \/ \E v \in FileValues : WriteEnvFile(DefaultEnvFile, v)

SpecCache == InitCache /\ [][NextCache]_vars

(* Test settings next to cached settings, the environment changing *)

InitTest ==
    /\ InitDefaultClient
    /\ InitCleanEnvironment
    /\ InitLoader
    /\ InitLoguru

NextTest ==
    \/ \E en \in {NoneArg, "testing"} : get_settings(NoneArg, en)
    \/ \E o \in OverrideChoices : get_test_settings(o)
    \/ \E v \in BoolValues : SetEnviron("DEBUG", v)
    \/ \E v \in {Unset, "production"} : SetEnviron("ENVIRONMENT", v)

SpecTest == InitTest /\ [][NextTest]_vars

(* Loggers constructed and reconfigured in one process *)

InitLogger ==
    /\ InitDefaultClient
    /\ InitCleanEnvironment
    /\ InitLoader
    /\ InitLoguru

NextLogger ==
    \/ Logger(DefaultLoggerConfig)
    \/ \E n \in Names, v \in Levels : Logger(create_logger_config(n, v, "sys.stderr"))
    \/ \E n \in Names, v \in Levels : Logger(create_file_logger_config(n, v))
    \/ \E l \in 1..Len(loggers), v \in Levels : set_level(l, v)
    \/ \E l \in 1..Len(loggers), k \in {"sys.stdout", FileSink} :
          add_handler(l, k, "DEBUG")
    \/ \E l \in 1..Len(loggers), h \in 0..MaxHandlers : remove_handler(l, h)

SpecLogger == InitLogger /\ [][NextLogger]_vars

(* The verbs with every combination of arguments, on a client with its own *)
(* config and on the default client through the module-level functions     *)

OwnConfig ==
    [HTTPClientConfig(2, DefaultRetryable) EXCEPT !.default_timeout = 2]

InitVerbs ==
    /\ config \in {HTTPClientConfig(DefaultMaxRetries, DefaultRetryable), OwnConfig}
    /\ _client = None
    /\ npools = 0
    /\ aclose = [p \in AllPools |-> 0]
    /\ req = IdleReq
    /\ closing = [t \in Tasks |-> None]
    /\ got = None
    /\ called = NoCall
    /\ received = NoCall
    /\ kwargs = NoCall.args
    /\ sent = <<>>
    /\ InitCleanEnvironment
    /\ InitLoader
    /\ InitLoguru

NextVerbs ==
    \/ \E m \in Methods, u \in Urls : \E a \in VerbArgs(m) : Verb(m, u, a)
    \/ \E m \in Methods, u \in Urls : \E a \in VerbArgs(m) : ModuleVerb(m, u, a)
    \/ TransportReturns
    \/ \E e \in Raisable : TransportRaises(e)
    \/ init_pool(1)
    \/ close_pool_begin(1)
    \/ close_pool_end(1)

SpecVerbs == InitVerbs /\ [][NextVerbs]_vars

-----------------------------------------------------------------------------
(* Properties of the HTTP client *)

UpperCased == { <<"get", "GET">>, <<"post", "POST">>, <<"put", "PUT">>,
                <<"delete", "DELETE">> }

\* C1: when the first k transport calls of a request raised retryable
\* failures (k = req.failed <= max_retries - 1) and call k+1 returned a
\* response, the request is over, exactly k+1 transport calls were made, and
\* the caller got the success Result wrapping the response of call k+1.
C1_SuccessShortCircuits ==
    req.returned >= 1 =>
        /\ req.pc = "done"
        /\ req.returned = 1
        /\ req.failed <= config.max_retries - 1
        /\ req.calls = req.failed + 1
        /\ req.result = Ok([pool |-> req.client, call |-> req.failed + 1])

C1_Witness ==
    /\ req.pc = "done"
    /\ req.result.kind = "Ok"
    /\ req.failed = 2
    /\ req.calls = 3

\* C2: (max_retries >= 1) when a request is over and every transport call it
\* made raised a retryable failure, it made exactly max_retries calls and the
\* caller got a failure Result - nothing was raised - whose message holds the
\* upper-cased method, the URL, max_retries as the attempt count, and the text
\* of the exception raised by the last (max_retries-th) call.
C2_ExhaustedReportsLastError ==
    (req.pc = "done" /\ req.calls >= 1 /\ req.failed = req.calls) =>
        /\ req.calls = config.max_retries
        /\ req.result.kind = "Err"
        /\ req.result.exc = NoExc
        /\ req.result.ok = NoResponse
        /\ <<req.method, req.result.err.method>> \in UpperCased
        /\ req.result.err.url = req.url
        /\ req.result.err.attempts = config.max_retries
        /\ req.result.err.error = req.raised.text

C2_Witness ==
    /\ req.pc = "done"
    /\ req.result.kind = "Err"
    /\ config.max_retries = 3
    /\ req.calls = 3
    /\ req.method = "post"
    /\ req.result.err.error = "Read timeout"

\* C3: when a transport call raised an exception whose type is not in the
\* configured retryable set, the request is over, that very exception reached
\* the caller (no Result), and the raising call was the last transport call,
\* whatever number of retryable failures came before it.
C3_NonRetryablePropagates ==
    (req.raised # NoExc /\ req.raised.type \notin config.retryable_exceptions) =>
        /\ req.pc = "done"
        /\ req.result = Raise(req.raised)
        /\ req.raised \in Raisable
        /\ req.calls = req.failed + 1
        /\ req.returned = 0

C3_Witness ==
    /\ req.pc = "done"
    /\ req.result.kind = "Raise"
    /\ req.failed >= 1
    /\ req.result.exc.type = "ConnectError"

\* C4: (max_retries >= 1) the per-call state machine.  While a request is
\* awaiting it is in attempt i = req.attempt + 1 with 1 <= i <= max_retries,
\* transport call i is the one in flight and all calls before it failed
\* retryably; the attempt number only ever advances by one, from an attempt
\* i < max_retries whose call raised a retryable failure; a finished request
\* made at most max_retries calls and is in exactly one of Succeeded (Ok, one
\* response), Exhausted (Err, after call max_retries failed retryably) and
\* Propagated (a non-retryable exception raised); and, every transport call
\* returning or raising, an awaiting request finishes.
C4_Attempting ==
    req.pc = "awaiting" =>
        /\ config.max_retries >= 1
        /\ req.attempt + 1 \in 1..config.max_retries
        /\ req.calls = req.attempt + 1
        /\ req.failed = req.attempt
        /\ req.returned = 0
        /\ req.result = NoResult

C4_Terminal ==
    (req.pc = "done" /\ config.max_retries >= 1) =>
        /\ req.calls \in 1..config.max_retries
        /\ req.result.kind \in {"Ok", "Err", "Raise"}
        /\ req.result.kind = "Ok" <=>
              (req.returned = 1 /\ req.raised = NoExc)
        /\ req.result.kind = "Err" <=>
              (/\ req.returned = 0
               /\ req.failed = config.max_retries
               /\ req.calls = config.max_retries
               /\ req.raised.type \in config.retryable_exceptions)
        /\ req.result.kind = "Raise" <=>
              (/\ req.returned = 0
               /\ req.raised # NoExc
               /\ req.raised.type \notin config.retryable_exceptions)
        /\ req.result.kind = "Ok" => (req.result.err = NoMessage /\ req.result.exc = NoExc)
        /\ req.result.kind = "Err" => (req.result.ok = NoResponse /\ req.result.exc = NoExc)
        /\ req.result.kind = "Raise" => (req.result.ok = NoResponse /\ req.result.err = NoMessage)

C4_Step ==
    (req.pc = "awaiting" /\ req' # req) =>
        \/ /\ req'.pc = "awaiting"
           /\ req'.attempt = req.attempt + 1
           /\ req.attempt + 1 < config.max_retries
           /\ req'.failed = req.failed + 1
           /\ req'.raised.type \in config.retryable_exceptions
        \/ /\ req'.pc = "done"
           /\ req'.attempt = req.attempt
           /\ req'.calls = req.calls

C4_StateMachine ==
    /\ [](C4_Attempting /\ C4_Terminal)
    /\ [][C4_Step]_vars
    /\ (req.pc = "awaiting") ~> (req.pc = "done")

C4_Witness ==
    /\ req.pc = "done"
    /\ req.result.kind = "Err"
    /\ config.max_retries = 2
    /\ req.calls = 2

\* C5: close() on a client that holds a pool invokes aclose once, on that
\* pool, and when it returns the pool reference is empty; a get_client or
\* request call that finds the reference empty constructs a new pool, not yet
\* closed, makes it the referenced one and goes on with it.
C5_CloseBegins ==
    \A t \in Tasks :
        (closing[t] = None /\ closing'[t] # None) =>
            /\ _client # None
            /\ closing'[t] = _client
            /\ aclose' = [aclose EXCEPT ![_client] = @ + 1]

C5_CloseReturns ==
    \A t \in Tasks :
        (closing[t] # None /\ closing'[t] = None) =>
            /\ _client' = None
            /\ aclose' = aclose
            /\ aclose[closing[t]] >= 1

C5_RecreatedOnNextCall ==
    (_client = None /\ ((req.pc # "awaiting" /\ req' # req) \/ got' # got)) =>
        /\ _client' = npools + 1
        /\ npools' = npools + 1
        /\ aclose'[_client'] = 0
        /\ req' # req => (req'.pc = "awaiting" /\ req'.client = _client'
                          /\ req'.calls = 1)
        /\ got' # got => got' = _client'

C5_CloseThenRecreate ==
    [][C5_CloseBegins /\ C5_CloseReturns /\ C5_RecreatedOnNextCall]_vars

C5_Witness ==
    /\ aclose[InjectedPool] = 1
    /\ \A t \in Tasks : closing[t] = None
    /\ _client = 1
    /\ aclose[1] = 0
    /\ req.pc = "done"
    /\ req.result = Ok([pool |-> 1, call |-> 1])

\* C6 (as amended): while no close() has been called, callers that obtain the
\* pool concurrently - a request in flight and direct get_client() calls - all
\* hold the one pool the client references: get_client constructs at most one
\* pool, none when one was injected, and no pool is left unreferenced.
NoCloseYet == \A p \in AllPools : aclose[p] = 0

C6_OnePoolWithoutClose ==
    NoCloseYet =>
        /\ npools <= 1
        /\ npools = 1 => _client = 1
        /\ req.client \in {None, _client}
        /\ got \in {None, _client}

C6_Witness ==
    /\ NoCloseYet
    /\ npools = 1
    /\ req.pc = "awaiting"
    /\ req.client = 1
    /\ got = 1

\* C6 (as stated): a second pool can be constructed by a concurrent caller.
\* With get_client one step of the event loop, the interleavings of two
\* callers are the two orders of their get_client steps, so the claim says:
\* once one caller has constructed the pool on an empty reference (and nobody
\* closed it), the get_client of another caller can still construct one more.
SecondPoolConstructed ==
    /\ \/ \E t \in Tasks : GetClient(t)
       \/ \E u \in Urls : SendRequest("get", u)
    /\ npools' = npools + 1

C6_Original ==
    (NoCloseYet /\ npools = 1) => ENABLED SecondPoolConstructed

-----------------------------------------------------------------------------
(* Properties of the settings loader *)

Ids == 1..Len(instances)
SamePair(i, j) ==
    /\ instances[i].env_file = instances[j].env_file
    /\ instances[i].environment = instances[j].environment

\* C7: the settings cache is keyed by the (env_file, environment) pair: two
\* calls of get_settings or SettingsFactory.create with an equal pair return
\* the same instance, so no second instance is ever constructed for a pair
\* (the later call does not read the environment again).
C7_OneInstancePerPair == \A i, j \in Ids : SamePair(i, j) => i = j

\* the variant of each environment, as the contract lists them
VariantOf(e) ==
    CASE e = "development" -> "DevelopmentSettings"
      [] e = "testing" -> "TestingSettings"
      [] e = "staging" -> "StagingSettings"
      [] e = "production" -> "ProductionSettings"

\* the ENVIRONMENT entry of the env file the call of instance i reads
FileEntry(i) ==
    dotenv[IF Truthy(instances[i].env_file)
           THEN instances[i].env_file ELSE DefaultEnvFile]

NoOverridingValues ==
    /\ environ.DEBUG = Unset
    /\ environ.CORS_ALLOW_ALL_ORIGINS = Unset

\* C9: with no overriding environment values, the development variant has
\* debug enabled and allow-all CORS enabled; the testing variant has debug
\* enabled and allow-all CORS disabled (the base default).
C9_VariantDefaults ==
    NoOverridingValues =>
        \A i \in Ids :
            /\ instances[i].cls = "DevelopmentSettings"
                  => instances[i].DEBUG /\ instances[i].CORS_ALLOW_ALL_ORIGINS
            /\ instances[i].cls = "TestingSettings"
                  => instances[i].DEBUG /\ ~instances[i].CORS_ALLOW_ALL_ORIGINS

\* a development instance and a testing instance, no overriding value set
C9_Witness ==
    /\ NoOverridingValues
    /\ \E i \in Ids : instances[i].cls = "DevelopmentSettings"
    /\ \E i \in Ids : instances[i].cls = "TestingSettings"

\* C9 as stated: both variants have debug and allow-all CORS enabled
C9_Original ==
    NoOverridingValues =>
        \A i \in Ids :
            instances[i].cls \in {"DevelopmentSettings", "TestingSettings"}
               => instances[i].DEBUG /\ instances[i].CORS_ALLOW_ALL_ORIGINS

\* C10: an instance whose effective environment is production has debug
\* false unless DEBUG is set in the environment, and wildcard CORS false
\* unless CORS_ALLOW_ALL_ORIGINS is set in the environment, whatever the
\* defaults of the base settings and of the other variants.
C10_ProductionDefaults ==
    \A i \in Ids :
        instances[i].ENVIRONMENT = "production" =>
            /\ environ.DEBUG = Unset => ~instances[i].DEBUG
            /\ environ.CORS_ALLOW_ALL_ORIGINS = Unset
                  => ~instances[i].CORS_ALLOW_ALL_ORIGINS

\* a production instance constructed with neither value set
C10_Witness ==
    /\ NoOverridingValues
    /\ \E i \in Ids :
          /\ instances[i].ENVIRONMENT = "production"
          /\ instances[i].cls = "ProductionSettings"
          /\ ~instances[i].DEBUG
          /\ ~instances[i].CORS_ALLOW_ALL_ORIGINS

\* C10 as stated: production always has debug false and wildcard CORS false
C10_Original ==
    \A i \in Ids :
        instances[i].ENVIRONMENT = "production" =>
            ~instances[i].DEBUG /\ ~instances[i].CORS_ALLOW_ALL_ORIGINS

\* C11: get_test_settings never reads or populates the settings cache: every
\* call builds a new TestingSettings instance (ENVIRONMENT testing unless
\* overridden), each overridden field holds exactly the value supplied, and
\* no instance returned earlier is changed.
C11_TestInstances ==
    \A t \in tests :
        /\ t.id \in Ids
        /\ instances[t.id].cls = "TestingSettings"
        /\ \A f \in t.override_values.keys :
              instances[t.id][f] = t.override_values.vals[f]
        /\ "ENVIRONMENT" \notin t.override_values.keys
              => instances[t.id].ENVIRONMENT = "testing"
        /\ ~ \E c \in cache : c.id = t.id
        /\ \A u \in tests : u.id = t.id => u = t

C11_Step ==
    /\ \A i \in Ids : Len(instances') >= i /\ instances'[i] = instances[i]
    /\ tests' # tests =>
          /\ cache' = cache
          /\ Len(instances') = Len(instances) + 1
          /\ ret' = Len(instances')

C11_TestSettingsBypassCache == [] C11_TestInstances /\ [][C11_Step]_vars

\* the cache holds an instance for (None, "testing"), and a later
\* get_test_settings call with an override built another one
C11_Witness ==
    \E c \in cache, t \in tests :
        /\ c.key = MakeKey("kw", NoneArg, "testing")
        /\ t.id > c.id
        /\ t.override_values.keys = {"DEBUG"}
        /\ instances[c.id].DEBUG
        /\ ~instances[t.id].DEBUG

-----------------------------------------------------------------------------
(* Properties of the Logger *)

LoggerIds == 1..Len(loggers)

\* the handlers registered under the id Logger l records as its own
Primary(l) == {h \in handlers : h.id = loggers[l]._handler_id}

\* C12: set_level on a Logger whose primary sink is registered replaces the
\* registration as one whole: it returns without raising, the old
\* registration is gone, and the Logger has exactly one primary sink, at the
\* new level with the same target and format, named by its recorded handler
\* id; it never leaves the Logger without a primary sink.
C12_Step ==
    \A l \in LoggerIds :
        (/\ op'.name = "set_level"
         /\ op'.logger = l
         /\ handlers_count' # handlers_count
         /\ Primary(l) # {})
        => /\ op'.raised = ""
           /\ loggers[l]._handler_id \notin HandlerIds(handlers')
           /\ {h \in handlers' : h.id = loggers'[l]._handler_id}
                = {[id |-> loggers'[l]._handler_id,
                    sink |-> loggers[l].config.sink,
                    level |-> op'.arg,
                    format |-> loggers[l].config.format]}

C12_SetLevelAtomic == [][C12_Step]_vars

\* C13: whatever Loggers were constructed and whatever set_level,
\* add_handler and remove_handler calls were made, every Logger constructed
\* so far has exactly one registered primary sink, the one its recorded
\* handler id names.
C13_OnePrimaryEach == \A l \in LoggerIds : Cardinality(Primary(l)) = 1

\* C14: add_handler registers one more sink and returns its new handle;
\* remove_handler called with a handle add_handler returned removes the sink
\* of that handle and no other; neither changes any Logger's recorded
\* primary handler id or the registration it names.
C14_Step ==
    /\ (op'.name = "add_handler" /\ handlers_count' # handlers_count)
       => /\ op'.raised = ""
          /\ op'.ret \notin HandlerIds(handlers)
          /\ handlers \subseteq handlers'
          /\ HandlerIds(handlers') = HandlerIds(handlers) \cup {op'.ret}
          /\ Cardinality(handlers') = Cardinality(handlers) + 1
          /\ loggers' = loggers
    /\ (op'.name = "remove_handler" /\ op'.ret \in aux)
       => /\ handlers' = {h \in handlers : h.id # op'.ret}
          /\ loggers' = loggers
          /\ \A l \in LoggerIds :
                {h \in handlers' : h.id = loggers'[l]._handler_id} = Primary(l)

C14_AuxiliaryHandlers == [][C14_Step]_vars

\* an auxiliary sink was added to a Logger and removed again by its handle,
\* the Logger's primary sink still registered
C14_Witness ==
    /\ op.name = "remove_handler"
    /\ op.raised = ""
    /\ op.ret \in aux
    /\ op.ret \notin HandlerIds(handlers)
    /\ op.logger \in LoggerIds
    /\ Cardinality(Primary(op.logger)) = 1

-----------------------------------------------------------------------------
(* Properties of the verbs and of the module-level functions *)

\* C15: every transport call of a request carries the url, headers and body
\* arguments the verb was called with, and as timeout the caller's timeout
\* when one was given, the config's default_timeout when it was None.
C15_TimeoutForwarded ==
    /\ req.pc = "awaiting" => Len(sent) = req.calls
    /\ \A i \in 1..Len(sent) :
          /\ sent[i].url = received.url
          /\ sent[i].kwargs.headers = received.args.headers
          /\ sent[i].kwargs.data = received.args.data
          /\ sent[i].kwargs.json = received.args.json
          /\ sent[i].kwargs.timeout =
                IF received.args.timeout # NoneTimeout
                THEN received.args.timeout
                ELSE config.default_timeout

\* C16: a module-level verb calls the same verb of default_client with the
\* same url, headers, data, json and timeout, and the request made is that
\* call's; module-level requests, init_pool and close_pool all work on the
\* pool reference of default_client.
C16_Forwarded ==
    called.via = "module" =>
        /\ IsDefaultClient
        /\ received.via = "default_client"
        /\ received.method = called.method
        /\ received.url = called.url
        /\ received.args = called.args
        /\ req.method = called.method
        /\ req.url = called.url

C16_Step ==
    /\ (req.pc # "awaiting" /\ req'.pc = "awaiting" /\ called'.via = "module")
          => /\ req'.client = _client'
             /\ _client # None => req'.client = _client
    /\ got' # got
          => /\ got' = _client'
             /\ _client # None => got' = _client
    /\ \A t \in Tasks :
          (closing[t] = None /\ closing'[t] # None) => closing'[t] = _client

C16_ModuleDelegates == [] C16_Forwarded /\ [][C16_Step]_vars

\* the module's post with data and a timeout returned Ok on the pool that
\* init_pool had opened
C16_Witness ==
    /\ called.via = "module"
    /\ called.method = "post"
    /\ called.args.data = "data"
    /\ called.args.timeout = 3
    /\ req.result.kind = "Ok"
    /\ got # None
    /\ got = req.client
    /\ Len(sent) >= 2
    /\ sent[2].kwargs = Args(called.args.headers, "data", NoneArg, 3)

-----------------------------------------------------------------------------
(* Properties of the pool reference *)

\* C17: a pool is created only when the reference is empty, and then exactly
\* one, which becomes the reference; with a pool present (injected or
\* created earlier) get_client returns that pool and creates none, so the
\* reference changes only from empty to a new pool or, by close, to empty.
C17_Step ==
    /\ npools' # npools
          => /\ _client = None
             /\ npools' = npools + 1
             /\ _client' = npools'
    /\ got' # got
          => /\ got' = _client'
             /\ _client # None => (got' = _client /\ npools' = npools)
    /\ (req.pc # "awaiting" /\ req'.pc = "awaiting")
          => /\ req'.client = _client'
             /\ _client # None => (req'.client = _client /\ npools' = npools)
    /\ _client' # _client => (_client = None \/ _client' = None)

C17_CreatesOnce == [][C17_Step]_vars

\* a direct get_client() and a request, with no close in between, got the
\* one pool that was created
C17_Witness ==
    /\ NoCloseYet
    /\ npools = 1
    /\ got = 1
    /\ req.pc = "done"
    /\ req.client = 1
    /\ _client = 1

\* C18: under every interleaving of close() calls and requests, a pool that
\* get_client created and the client no longer references has had aclose
\* invoked on it.
C18_NoPoolLeaked ==
    \A p \in 1..npools : p # _client => aclose[p] > 0

\* C19: the pool of a request is resolved once, before the first attempt:
\* every attempt is issued on it, whatever becomes of the client's reference
\* meanwhile, and the awaited attempt still returns or raises.
C19_Inv ==
    /\ \A i \in 1..Len(sent) : sent[i].pool = req.client
    /\ req.pc = "awaiting" => req.client # None /\ Len(sent) = req.calls
    /\ req.pc = "awaiting" => ENABLED TransportReturns

C19_Step ==
    (req.pc = "awaiting" /\ req'.pc = "awaiting")
       => /\ req'.client = req.client
          /\ req'.attempt # req.attempt
                => /\ Len(sent') = Len(sent) + 1
                   /\ sent'[Len(sent')].pool = req.client

C19_PoolResolvedOnce == [] C19_Inv /\ [][C19_Step]_vars

\* a second attempt was issued on pool 1 after a close() had emptied the
\* reference and get_client had created pool 2
C19_Witness ==
    /\ req.pc = "awaiting"
    /\ req.client = 1
    /\ _client = 2
    /\ aclose[1] > 0
    /\ Len(sent) = 3
    /\ sent[3].pool = 1

\* C20: with max_retries 0 or negative (HTTPClientConfig accepts it) a
\* request makes no transport call and returns Err, the message giving
\* max_retries as the attempt count and an empty error text.
C20_NoAttempts ==
    config.max_retries <= 0 =>
        /\ req.pc # "awaiting"
        /\ sent = <<>>
        /\ req.pc = "done" =>
              /\ req.calls = 0
              /\ req.result = Err([method |-> Upper(req.method),
                                   url |-> req.url,
                                   attempts |-> config.max_retries,
                                   error |-> ""])

C20_Witness ==
    /\ config.max_retries = -1
    /\ req.pc = "done"
    /\ req.method = "put"
    /\ req.result.kind = "Err"
    /\ req.result.err.attempts = -1

====
